---------------------------- MODULE Spec2Model ----------------------------
(***************************************************************************)
(* A model of ZeroconfScan: the DNS wire-format decoder of DNS.go and the  *)
(* concurrent capture engine of scan.go.                                   *)
(*                                                                         *)
(* Four specifications share the variables:                               *)
(*   Spec       the capture engine: main, the two message loops, the pump  *)
(*   LiveSpec   Spec with the fairness the Go scheduler and the one-second *)
(*              read deadline give                                         *)
(*   LabelSpec  parse_labels applied to bounded buffers                    *)
(*   DecSpec    DNSMessage.FromBytes, one loop iteration per step          *)
(*                                                                         *)
(* Byte buffers are sequences of 0..255; Go offset i is element i+1.       *)
(***************************************************************************)
EXTENDS Integers, Sequences, FiniteSets, TLC

(***************************************************************************)
(* Bounds of the model.                                                    *)
(***************************************************************************)
\* number of candidate interfaces handed to each message loop
NumIfaces == 2
\* datagrams the two message loops receive in one run, together (timeouts
\* are not counted)
MaxRecv == 2
\* longest buffer parse_labels is applied to in LabelSpec
MaxLabelBuf == 4

(***************************************************************************)
(* Program constants.                                                      *)
(***************************************************************************)
A == 1
PTR == 12
TXT == 16
AAAA == 28
SRV == 33
\* ptr_bits, 0xc0: a length byte with both high bits set
ptr_bits == 192
\* idx_bits + 1, 0x3FFF + 1: the pointer offset is the low 14 bits
idx_mod == 16384

(***************************************************************************)
(* Go slices and encoding/binary.                                          *)
(***************************************************************************)
\* b[i], defined for 0 <= i < len(b)
At(b, i) == b[i + 1]

\* b[lo:hi], defined for 0 <= lo <= hi <= len(b)
Slice(b, lo, hi) == [k \in 1..(hi - lo) |-> b[lo + k]]

\* binary.BigEndian.Uint16(b[i:]) panics unless two bytes are there
CanU16(b, i) == i >= 0 /\ i + 2 <= Len(b)
U16(b, i) == At(b, i) * 256 + At(b, i + 1)

\* binary.BigEndian.Uint32(b[i:]); the 32-bit value is kept as its two
\* 16-bit halves, hi * 65536 + lo
CanU32(b, i) == i >= 0 /\ i + 4 <= Len(b)
U32(b, i) == [hi |-> U16(b, i), lo |-> U16(b, i + 2)]

\* strings.Join(l, sep) over byte strings
RECURSIVE Join(_, _)
Join(l, sep) ==
  IF Len(l) = 0 THEN <<>>
  ELSE IF Len(l) = 1 THEN l[1]
  ELSE l[1] \o sep \o Join(Tail(l), sep)

Dot == <<46>>
Space == <<32>>

(***************************************************************************)
(* parse_labels.  The result is [st, i, l]: st = "ok" with the returned    *)
(* offset and labels, "panic" for a Go run-time panic (index or slice out  *)
(* of range), "stack_overflow" for recursion that never returns.  Each     *)
(* call is a function of its start offset alone (max_i, b and allow_ptr    *)
(* are passed on unchanged), so the recursion never returns exactly when a *)
(* start offset comes up again in the chain of calls: calls holds the      *)
(* start offsets of the calls on the stack.                                *)
(***************************************************************************)
\* the labels collected before the pointer are dropped
PointerReturnDropsResults(i, results, new_results) ==
  [st |-> "ok", i |-> i + 2, l |-> new_results]

\* i += 2; return i, append(results, new_results...), with i at the pointer
PointerReturn(i, results, new_results) ==
  [st |-> "ok", i |-> i + 2, l |-> results \o new_results]

RECURSIVE parse_labels_from(_, _, _, _, _, _)
parse_labels_from(i, max_i, b, allow_ptr, results, calls) ==
  IF max_i > 0 /\ i >= max_i THEN [st |-> "ok", i |-> max_i + 1, l |-> results]
  ELSE IF ~(i >= 0 /\ i < Len(b)) THEN [st |-> "panic", i |-> i, l |-> results]
  ELSE IF allow_ptr /\ At(b, i) >= ptr_bits THEN
    IF ~CanU16(b, i) THEN [st |-> "panic", i |-> i, l |-> results]
    ELSE LET u16 == U16(b, i) % idx_mod IN
      IF u16 \in calls THEN [st |-> "stack_overflow", i |-> i, l |-> results]
      ELSE LET r == parse_labels_from(u16, max_i, b, allow_ptr, <<>>, calls \cup {u16}) IN
        IF r.st # "ok" THEN [st |-> r.st, i |-> i, l |-> results]
        ELSE PointerReturn(i, results, r.l)
  ELSE LET n == At(b, i) IN
    IF n = 0 THEN [st |-> "ok", i |-> i + 1, l |-> results]
    ELSE IF i + 1 + n > Len(b) THEN [st |-> "panic", i |-> i + 1, l |-> results]
    ELSE parse_labels_from(i + 1 + n, max_i, b, allow_ptr,
                           Append(results, Slice(b, i + 1, i + 1 + n)), calls)

parse_labels(i, max_i, b, allow_ptr) ==
  parse_labels_from(i, max_i, b, allow_ptr, <<>>, {i})

\* the offsets of b that parse_labels reads: b[i] for the pointer test and
\* the length, the two bytes of a pointer, b[i:i+l] for a label's text.  The
\* only test against max_i is the one at the top of the loop.
RECURSIVE parse_labels_reads_from(_, _, _, _, _)
parse_labels_reads_from(i, max_i, b, allow_ptr, calls) ==
  IF max_i > 0 /\ i >= max_i THEN {}
  ELSE IF ~(i >= 0 /\ i < Len(b)) THEN {}
  ELSE IF allow_ptr /\ At(b, i) >= ptr_bits THEN
    IF ~CanU16(b, i) THEN {i}
    ELSE LET u16 == U16(b, i) % idx_mod IN
      {i, i + 1} \cup
        (IF u16 \in calls THEN {}
         ELSE parse_labels_reads_from(u16, max_i, b, allow_ptr, calls \cup {u16}))
  ELSE LET n == At(b, i) IN
    IF n = 0 \/ i + 1 + n > Len(b) THEN {i}
    ELSE (i..(i + n)) \cup parse_labels_reads_from(i + 1 + n, max_i, b, allow_ptr, calls)

parse_labels_reads(i, max_i, b, allow_ptr) ==
  parse_labels_reads_from(i, max_i, b, allow_ptr, {i})


(***************************************************************************)
(* DNSRRHeader.FromBytes: [st, i, h].                                      *)
(***************************************************************************)
DNSRRHeader_FromBytes(i, b) ==
  LET r == parse_labels(i, -1, b, TRUE) IN
  IF r.st # "ok" THEN [st |-> r.st, i |-> i, h |-> <<>>]
  ELSE IF ~CanU16(b, r.i) \/ ~CanU16(b, r.i + 2) THEN [st |-> "panic", i |-> r.i, h |-> <<>>]
  ELSE [st |-> "ok", i |-> r.i + 4,
        h |-> [Name |-> Join(r.l, Dot), Type |-> U16(b, r.i), Class |-> U16(b, r.i + 2)]]

\* net.IPv4(a, b, c, d): the 16-byte form, v4InV6Prefix followed by the address
IPv4(a, b, c, d) == <<0, 0, 0, 0, 0, 0, 0, 0, 0, 0, 255, 255, a, b, c, d>>

NoPayload == [kind |-> "nil"]

\* every case passes allow_ptr = true
AllowPtrAlways(type) == TRUE

\* the allow_ptr argument of the parse_labels call in a case of the switch:
\* true in case PTR and case SRV, false in case TXT
AllowPtr(type) == type \in {PTR, SRV}

\* the switch is not taken: rr.Payload stays nil whatever the type
DecodePayloadNotDispatched(type, i, rdlen, b) == [st |-> "ok", p |-> NoPayload]

(***************************************************************************)
(* The switch of DNSRR.FromBytes on rr.Header.Type, with i at the first    *)
(* rdata byte: [st, p].                                                    *)
(***************************************************************************)
DecodePayload(type, i, rdlen, b) ==
  CASE type = A ->
         IF i + 3 >= Len(b) THEN [st |-> "panic", p |-> NoPayload]
         ELSE [st |-> "ok",
               p |-> [kind |-> "A",
                      IP |-> IPv4(At(b, i), At(b, i + 1), At(b, i + 2), At(b, i + 3))]]
    [] type = PTR ->
         LET r == parse_labels(i, i + rdlen, b, AllowPtr(PTR)) IN
         IF r.st # "ok" THEN [st |-> r.st, p |-> NoPayload]
         ELSE [st |-> "ok", p |-> [kind |-> "PTR", Text |-> Join(r.l, Dot)]]
    [] type = TXT ->
         LET r == parse_labels(i, i + rdlen, b, AllowPtr(TXT)) IN
         IF r.st # "ok" THEN [st |-> r.st, p |-> NoPayload]
         ELSE [st |-> "ok", p |-> [kind |-> "TXT", Text |-> Join(r.l, Space)]]
    [] type = AAAA ->
         IF i + 16 > Len(b) THEN [st |-> "panic", p |-> NoPayload]
         ELSE [st |-> "ok", p |-> [kind |-> "AAAA", IP |-> Slice(b, i, i + 16)]]
    [] type = SRV ->
         LET r == parse_labels(i + 6, i + rdlen, b, AllowPtr(SRV)) IN
         IF r.st # "ok" THEN [st |-> r.st, p |-> NoPayload]
         ELSE IF i + 6 > Len(b) THEN [st |-> "panic", p |-> NoPayload]
         ELSE [st |-> "ok",
               p |-> [kind |-> "SRV", Priority |-> U16(b, i), Weight |-> U16(b, i + 2),
                      Port |-> U16(b, i + 4), Text |-> Join(r.l, Space)]]
    [] OTHER -> [st |-> "ok", p |-> NoPayload]

\* the cursor is left where the rdata begins
RRCursorNotAdvanced(d, rdlen) == d

\* i += rdlen after the switch, with i at the first rdata byte
RRCursor(d, rdlen) == d + rdlen

(***************************************************************************)
(* DNSRR.FromBytes: [st, i, rr].                                           *)
(***************************************************************************)
DNSRR_FromBytes(i, b) ==
  LET hr == DNSRRHeader_FromBytes(i, b) IN
  IF hr.st # "ok" THEN [st |-> hr.st, i |-> i, rr |-> <<>>]
  ELSE IF ~CanU32(b, hr.i) \/ ~CanU16(b, hr.i + 4) THEN [st |-> "panic", i |-> hr.i, rr |-> <<>>]
  ELSE LET rdlen == U16(b, hr.i + 4)
           d == hr.i + 6
       IN IF d + rdlen > Len(b) THEN [st |-> "panic", i |-> d, rr |-> <<>>]
          ELSE LET pr == DecodePayload(hr.h.Type, d, rdlen, b) IN
               IF pr.st # "ok" THEN [st |-> pr.st, i |-> d, rr |-> <<>>]
               ELSE [st |-> "ok", i |-> RRCursor(d, rdlen),
                     rr |-> [Header |-> hr.h, TTL |-> U32(b, hr.i), Payload |-> pr.p,
                             raw_payload |-> Slice(b, d, d + rdlen)]]

(***************************************************************************)
(* DNSMessageHeader.FromBytes at offset 0: six big-endian 16-bit words.    *)
(***************************************************************************)
HeaderLen == 12

DNSMessageHeader_FromBytes(b) ==
  IF Len(b) < HeaderLen THEN [st |-> "panic", i |-> 0, h |-> <<>>]
  ELSE [st |-> "ok", i |-> HeaderLen,
        h |-> [Identification |-> U16(b, 0), Flags |-> U16(b, 2),
               QuestionCount |-> U16(b, 4), AnswerCount |-> U16(b, 6),
               AuthorityCount |-> U16(b, 8), AdditionalCount |-> U16(b, 10)]]

(***************************************************************************)
(* DNSMessage.FromBytes as a machine over [pc, i, j, m]: pc is the loop    *)
(* the decoder is in, i the cursor, j the loop counter, m the message.     *)
(***************************************************************************)
EmptyHeader ==
  [Identification |-> 0, Flags |-> 0, QuestionCount |-> 0, AnswerCount |-> 0,
   AuthorityCount |-> 0, AdditionalCount |-> 0]

EmptyMessage ==
  [Header |-> EmptyHeader, Question |-> <<>>, Answer |-> <<>>, Authority |-> <<>>,
   Additional |-> <<>>]

DecodeStart == [pc |-> "header", i |-> 0, j |-> 0, m |-> EmptyMessage]

Sections == <<"Question", "Answer", "Authority", "Additional">>

\* every loop tests against QuestionCount
SectionCountCopied(h, sec) == h.QuestionCount

SectionCount(h, sec) ==
  CASE sec = "Question" -> h.QuestionCount
    [] sec = "Answer" -> h.AnswerCount
    [] sec = "Authority" -> h.AuthorityCount
    [] sec = "Additional" -> h.AdditionalCount

NextPc(sec) ==
  CASE sec = "Question" -> "Answer"
    [] sec = "Answer" -> "Authority"
    [] sec = "Authority" -> "Additional"
    [] sec = "Additional" -> "done"

DecodeTerminal == {"done", "panic", "stack_overflow"}

\* the test of the four for loops: j < m.Header.<Section>Count
LoopTest(j, count) == j < count

\* m.raw_msg = make([]byte, len(bytes)); copy(...); i := m.Header.FromBytes(0, m.raw_msg)
StepHeader(s, b) ==
  LET r == DNSMessageHeader_FromBytes(b) IN
  IF r.st # "ok" THEN [s EXCEPT !.pc = r.st]
  ELSE [pc |-> "Question", i |-> r.i, j |-> 0, m |-> [s.m EXCEPT !.Header = r.h]]

\* one evaluation of a section's loop: the test, and the body when it passes
StepSection(s, b) ==
  LET sec == s.pc IN
  IF ~LoopTest(s.j, SectionCount(s.m.Header, sec))
  THEN [s EXCEPT !.pc = NextPc(sec), !.j = 0]
  ELSE IF sec = "Question"
    THEN LET r == DNSRRHeader_FromBytes(s.i, b) IN
         IF r.st # "ok" THEN [s EXCEPT !.pc = r.st]
         ELSE [s EXCEPT !.i = r.i, !.j = s.j + 1, !.m.Question = Append(@, r.h)]
    ELSE LET r == DNSRR_FromBytes(s.i, b) IN
         IF r.st # "ok" THEN [s EXCEPT !.pc = r.st]
         ELSE [s EXCEPT !.i = r.i, !.j = s.j + 1, !.m[sec] = Append(@, r.rr)]

DecodeStep(s, b) == IF s.pc = "header" THEN StepHeader(s, b) ELSE StepSection(s, b)

RECURSIVE DecodeRun(_, _)
DecodeRun(s, b) == IF s.pc \in DecodeTerminal THEN s ELSE DecodeRun(DecodeStep(s, b), b)

\* the whole of DNSMessage.FromBytes(bytes): the final [pc, i, j, m]
FromBytes(bytes) == DecodeRun(DecodeStart, bytes)


(***************************************************************************)
(* State.                                                                  *)
(***************************************************************************)
VARIABLES
  \* main(): its position, the two channels, the signal and timer channels
  mpc, stop_closed, mdns_closed, interrupt_chan, timeout_seconds, timer,
  \* what main handed to Print, what the pump goroutine read and dropped
  presented, pumped,
  \* the shutdown statements main has executed, in order
  shutdown_log,
  \* the pump goroutine of main
  ppc,
  \* the message loops, one per address family
  wpc, wk, deferred, left, sock, nrecv, last_dst, pending,
  \* how the process ended, if it did other than by main returning
  exited,
  \* the build: whether the range variable iface is one variable for the
  \* whole loop (Go before 1.22) or one per iteration; "unobserved" until a
  \* deferred LeaveGroup(&iface, ...) runs
  loopvar,
  \* LabelSpec: the arguments of parse_labels and its result
  lin, lout,
  \* DecSpec: the buffer handed to FromBytes and the decoder's [pc, i, j, m]
  raw_msg, dec,
  \* BufSpec: b, the receive buffer of each message loop.  The other
  \* specifications hold events by value and leave it out.
  recv_buf

mainVars == <<mpc, stop_closed, mdns_closed, interrupt_chan, timeout_seconds, timer,
              presented, pumped, shutdown_log, ppc>>
workerVars == <<wpc, wk, deferred, left, sock, nrecv, last_dst, pending>>
engineVars == <<mainVars, workerVars, exited, loopvar>>
labelVars == <<lin, lout>>
decVars == <<raw_msg, dec, recv_buf>>
vars == <<engineVars, labelVars, decVars>>

(***************************************************************************)
(* The capture engine: scan.go.                                            *)
(***************************************************************************)
\* the address families of the two message loops
W == {4, 6}

\* no message loop has made its buffer
NoBuffers == [w \in W |-> <<>>]

\* ifaces, the candidate interfaces main passes to both loops
ifaces == [k \in 1..NumIfaces |-> k]

\* mdns_addr.IP of each loop: 224.0.0.251 and ff02::fb
mdns_addr(w) == IF w = 4 THEN "224.0.0.251" ELSE "ff02::fb"

\* destination addresses a datagram read from the family's socket can carry:
\* the group, another multicast group, a unicast address
Dsts(w) == IF w = 4 THEN {"224.0.0.251", "224.0.0.252", "10.0.0.7"}
           ELSE {"ff02::fb", "ff02::fc", "fe80::7"}

\* net.IP.IsMulticast: 224.0.0.0/4 and ff00::/8
IsMulticast(ip) == ip \in {"224.0.0.251", "224.0.0.252", "ff02::fb", "ff02::fc"}

\* the negation of the filter's test: !dst.IsMulticast() || !dst.Equal(mdns_addr.IP)
AcceptAnyMulticast(dst, w) == IsMulticast(dst)
Accept(dst, w) == IsMulticast(dst) /\ dst = mdns_addr(w)

Hdr(qd, an, ns, ar) == <<0, 0, 0, 0, 0, qd, 0, an, 0, ns, 0, ar>>

\* a question: name, type, class IN
Q(name, type) == name \o <<0, type, 0, 1>>

\* a resource record: name, type, class IN, TTL 60, rdlength, rdata
RR(name, type, rdata) == name \o <<0, type, 0, 1, 0, 0, 0, 60, 0, Len(rdata)>> \o rdata

\* payloads a datagram can hold: a one-question query for "a", a three-byte
\* datagram, a question whose name is a pointer to itself
DgQuery == Hdr(1, 0, 0, 0) \o Q(<<1, 97, 0>>, PTR)
DgShort == <<0, 0, 132>>
DgSelfPtr == Hdr(1, 0, 0, 0) \o Q(<<192, 12>>, PTR)
DgBytes == {DgQuery, DgShort, DgSelfPtr}

Datagrams(w) == {[dst |-> a, b |-> x] : a \in Dsts(w), x \in DgBytes}

\* dnsi.msg.FromBytes(b[:n]) for each payload
DgDecoded == [x \in DgBytes |-> FromBytes(x)]

NoEvent == [w |-> 0]

Running == exited = "no" /\ mpc # "done"

\* the LeaveGroup calls the deferred statements make when msg_loop returns,
\* last deferred first.  Each was deferred with the argument &iface: with one
\* iface for the whole loop every call sees the last element of ifaces, with
\* one iface per iteration each sees the interface it was deferred for.
LeaveCalls(w, sem) ==
  LET d == deferred[w] IN
  [n \in 1..Len(d) |-> IF sem = "shared" THEN ifaces[NumIfaces] ELSE d[Len(d) + 1 - n]]

\* msg_loop returns: its deferred LeaveGroup calls run, then ip4/ip6_msg_loop
\* returns and its deferred c.Close() runs, then wait_group.Done().  The
\* first deferred call to run shows which build this is.
Return(w) ==
  /\ wpc' = [wpc EXCEPT ![w] = "done"]
  /\ sock' = [sock EXCEPT ![w] = "closed"]
  /\ \E sem \in {"shared", "per_iteration"} :
       /\ loopvar \in {"unobserved", sem}
       /\ loopvar' = IF Len(deferred[w]) > 0 THEN sem ELSE loopvar
       /\ left' = [left EXCEPT ![w] = LeaveCalls(w, sem)]

\* c, err := net.ListenUDP(...); log.Fatal on error; defer c.Close()
ListenUDP(w) ==
  /\ Running /\ wpc[w] = "listen_udp"
  /\ \E ok \in BOOLEAN :
       IF ok THEN /\ wpc' = [wpc EXCEPT ![w] = "join"]
                  /\ sock' = [sock EXCEPT ![w] = "open"]
                  /\ UNCHANGED exited
       ELSE /\ exited' = "log_fatal"
            /\ UNCHANGED <<wpc, sock>>
  /\ UNCHANGED <<mainVars, wk, deferred, left, nrecv, last_dst, pending, loopvar,
                 labelVars, decVars>>

\* a failed JoinGroup ends the process with log.Fatal
JoinGroupFailFatal(w) ==
  /\ Running /\ wpc[w] = "join" /\ wk[w] <= NumIfaces
  /\ \E ok \in BOOLEAN :
       IF ok THEN /\ deferred' = [deferred EXCEPT ![w] = Append(@, ifaces[wk[w]])]
                  /\ wk' = [wk EXCEPT ![w] = @ + 1]
                  /\ UNCHANGED exited
       ELSE /\ exited' = "log_fatal"
            /\ UNCHANGED <<deferred, wk>>
  /\ UNCHANGED <<mainVars, wpc, left, sock, nrecv, last_dst, pending, loopvar,
                 labelVars, decVars>>

\* one iteration of the join loop
JoinGroup(w) ==
  /\ Running /\ wpc[w] = "join" /\ wk[w] <= NumIfaces
  /\ \E ok \in BOOLEAN :
       deferred' = [deferred EXCEPT ![w] = IF ok THEN Append(@, ifaces[wk[w]]) ELSE @]
  /\ wk' = [wk EXCEPT ![w] = @ + 1]
  /\ UNCHANGED <<mainVars, wpc, left, sock, nrecv, last_dst, pending, exited, loopvar,
                 labelVars, decVars>>

\* n_joined: one per deferred LeaveGroup
n_joined(w) == Len(deferred[w])

\* a loop that joined nothing ends the process with log.Fatal
AfterJoinEscalates(w) ==
  /\ Running /\ wpc[w] = "join" /\ wk[w] > NumIfaces
  /\ \E ok \in BOOLEAN :
       IF ok /\ n_joined(w) >= 1
       THEN /\ wpc' = [wpc EXCEPT ![w] = "select"]
            /\ UNCHANGED <<left, sock, exited, loopvar>>
       ELSE /\ exited' = "log_fatal"
            /\ UNCHANGED <<wpc, left, sock, loopvar>>
  /\ UNCHANGED <<mainVars, wk, deferred, nrecv, last_dst, pending, labelVars, decVars>>

\* after the join loop: return when nothing joined, else SetControlMessageWrapper
AfterJoin(w) ==
  /\ Running /\ wpc[w] = "join" /\ wk[w] > NumIfaces
  /\ IF n_joined(w) < 1
     THEN Return(w) /\ UNCHANGED exited
     ELSE \E ok \in BOOLEAN :
            IF ok THEN /\ wpc' = [wpc EXCEPT ![w] = "select"]
                       /\ UNCHANGED <<left, sock, exited, loopvar>>
            ELSE /\ exited' = "log_fatal"
                 /\ UNCHANGED <<wpc, left, sock, loopvar>>
  /\ UNCHANGED <<mainVars, wk, deferred, nrecv, last_dst, pending, labelVars, decVars>>

\* the loop goes to the receive without looking at stop_channel
PollIgnoresStop(w) ==
  /\ Running /\ wpc[w] = "select"
  /\ wpc' = [wpc EXCEPT ![w] = "read"]
  /\ last_dst' = [last_dst EXCEPT ![w] = "none"]
  /\ UNCHANGED <<mainVars, wk, deferred, left, sock, loopvar, nrecv, pending, exited,
                 labelVars, decVars>>

\* the select at the top of the loop: the closed stop channel is ready, and
\* default runs only when it is not
Poll(w) ==
  /\ Running /\ wpc[w] = "select"
  /\ IF stop_closed THEN Return(w)
     ELSE /\ wpc' = [wpc EXCEPT ![w] = "read"]
          /\ UNCHANGED <<left, sock, loopvar>>
  /\ last_dst' = [last_dst EXCEPT ![w] = "none"]
  /\ UNCHANGED <<mainVars, wk, deferred, nrecv, pending, exited, labelVars, decVars>>

\* a timeout sends the loop back to its join phase
ReadTimeoutRejoins(w) ==
  /\ Running /\ wpc[w] = "read"
  /\ wpc' = [wpc EXCEPT ![w] = "join"]
  /\ UNCHANGED <<mainVars, wk, deferred, left, sock, nrecv, last_dst, pending, exited,
                 loopvar, labelVars, decVars>>

\* ReadFromWrapper returns a timeout error: continue
ReadTimeout(w) ==
  /\ Running /\ wpc[w] = "read"
  /\ wpc' = [wpc EXCEPT ![w] = "select"]
  /\ UNCHANGED <<mainVars, wk, deferred, left, sock, nrecv, last_dst, pending, exited,
                 loopvar, labelVars, decVars>>

\* every receive error is taken for a timeout: continue
ReadErrorContinues(w) ==
  /\ Running /\ wpc[w] = "read"
  /\ wpc' = [wpc EXCEPT ![w] = "select"]
  /\ UNCHANGED <<mainVars, wk, deferred, left, sock, nrecv, last_dst, pending, exited,
                 loopvar, labelVars, decVars>>

\* ReadFromWrapper returns another error: log.Fatal
ReadError(w) ==
  /\ Running /\ wpc[w] = "read"
  /\ exited' = "log_fatal"
  /\ UNCHANGED <<mainVars, workerVars, loopvar, labelVars, decVars>>

\* ReadFromWrapper returns a datagram: the filter, InterfaceByIndex, FromBytes
ReadDatagram(w) ==
  /\ Running /\ wpc[w] = "read" /\ nrecv[4] + nrecv[6] < MaxRecv
  /\ \E d \in Datagrams(w), iface_ok \in BOOLEAN :
       /\ nrecv' = [nrecv EXCEPT ![w] = @ + 1]
       /\ last_dst' = [last_dst EXCEPT ![w] = d.dst]
       /\ IF ~Accept(d.dst, w)
          THEN /\ wpc' = [wpc EXCEPT ![w] = "select"]
               /\ UNCHANGED <<left, sock, pending, exited, loopvar>>
          ELSE IF ~iface_ok
          THEN /\ exited' = "log_fatal"
               /\ UNCHANGED <<wpc, left, sock, pending, loopvar>>
          ELSE LET r == DgDecoded[d.b] IN
               CASE r.pc = "panic" ->
                      \* the panic unwinds the goroutine: its deferred calls run
                      /\ Return(w)
                      /\ exited' = "panic"
                      /\ UNCHANGED pending
                 [] r.pc = "stack_overflow" ->
                      /\ exited' = "stack_overflow"
                      /\ UNCHANGED <<wpc, left, sock, pending, loopvar>>
                 [] OTHER ->
                      /\ wpc' = [wpc EXCEPT ![w] = "send"]
                      /\ pending' = [pending EXCEPT ![w] =
                                       [w |-> w, seq |-> nrecv[w] + 1, dst |-> d.dst, msg |-> r.m]]
                      /\ UNCHANGED <<left, sock, exited, loopvar>>
  /\ UNCHANGED <<mainVars, wk, deferred, labelVars, decVars>>

\* main presents the event it received ahead of the earlier ones
MainRecvPrepends(w) ==
  /\ Running /\ mpc = "select" /\ wpc[w] = "send"
  /\ presented' = <<pending[w]>> \o presented
  /\ pending' = [pending EXCEPT ![w] = NoEvent]
  /\ wpc' = [wpc EXCEPT ![w] = "select"]
  /\ UNCHANGED <<mpc, stop_closed, mdns_closed, interrupt_chan, timeout_seconds, timer,
                 pumped, shutdown_log, ppc, wk, deferred, left, sock, nrecv, last_dst,
                 exited, loopvar, labelVars, decVars>>

\* dnsi_channel <- dnsi meets main's case dnsi := <-mdns_chan; dnsi.msg.Print()
MainRecv(w) ==
  /\ Running /\ mpc = "select" /\ wpc[w] = "send"
  /\ presented' = Append(presented, pending[w])
  /\ pending' = [pending EXCEPT ![w] = NoEvent]
  /\ wpc' = [wpc EXCEPT ![w] = "select"]
  /\ UNCHANGED <<mpc, stop_closed, mdns_closed, interrupt_chan, timeout_seconds, timer,
                 pumped, shutdown_log, ppc, wk, deferred, left, sock, nrecv, last_dst,
                 exited, loopvar, labelVars, decVars>>

\* the pump prints what it receives as main's dispatch loop does
PumpRecvPresents(w) ==
  /\ Running /\ ppc = "pump" /\ wpc[w] = "send"
  /\ pumped' = pumped + 1
  /\ presented' = Append(presented, pending[w])
  /\ pending' = [pending EXCEPT ![w] = NoEvent]
  /\ wpc' = [wpc EXCEPT ![w] = "select"]
  /\ UNCHANGED <<mpc, stop_closed, mdns_closed, interrupt_chan, timeout_seconds, timer,
                 shutdown_log, ppc, wk, deferred, left, sock, nrecv, last_dst,
                 exited, loopvar, labelVars, decVars>>

\* dnsi_channel <- dnsi meets the pump's _, ok := <-mdns_chan
PumpRecv(w) ==
  /\ Running /\ ppc = "pump" /\ wpc[w] = "send"
  /\ pumped' = pumped + 1
  /\ pending' = [pending EXCEPT ![w] = NoEvent]
  /\ wpc' = [wpc EXCEPT ![w] = "select"]
  /\ UNCHANGED <<mpc, stop_closed, mdns_closed, interrupt_chan, timeout_seconds, timer,
                 presented, shutdown_log, ppc, wk, deferred, left, sock, nrecv, last_dst,
                 exited, loopvar, labelVars, decVars>>

\* the pump leaves its loop whether or not the channel is closed
PumpBreaksEarly ==
  /\ Running /\ ppc = "pump"
  /\ ppc' = "done"
  /\ UNCHANGED <<mpc, stop_closed, mdns_closed, interrupt_chan, timeout_seconds, timer,
                 presented, pumped, shutdown_log, workerVars, exited, loopvar,
                 labelVars, decVars>>

\* the pump's receive reports the channel closed: break
PumpClosed ==
  /\ Running /\ ppc = "pump" /\ mdns_closed
  /\ ppc' = "done"
  /\ UNCHANGED <<mpc, stop_closed, mdns_closed, interrupt_chan, timeout_seconds, timer,
                 presented, pumped, shutdown_log, workerVars, exited, loopvar,
                 labelVars, decVars>>

\* a SIGINT or SIGTERM arrives: signal.Notify's channel holds one signal.
\* Nothing reads interrupt_chan or timeout_chan once main has left its
\* dispatch loop: what arrives later is left out, and what the two channels
\* hold at that moment is dropped (LeaveLoop).
Interrupt ==
  /\ Running /\ mpc = "select" /\ interrupt_chan = 0
  /\ interrupt_chan' = 1
  /\ UNCHANGED <<mpc, stop_closed, mdns_closed, timeout_seconds, timer, presented,
                 pumped, shutdown_log, ppc, workerVars, exited, loopvar,
                 labelVars, decVars>>

\* the timer of time.After fires
TimerFire ==
  /\ Running /\ mpc = "select" /\ timer = "armed"
  /\ timer' = "fired"
  /\ UNCHANGED <<mpc, stop_closed, mdns_closed, interrupt_chan, timeout_seconds,
                 presented, pumped, shutdown_log, ppc, workerVars, exited, loopvar,
                 labelVars, decVars>>

\* should_quit = true ends the dispatch loop: the two trigger channels are
\* never read again
LeaveLoop ==
  /\ mpc' = "close_stop"
  /\ interrupt_chan' = 0
  /\ timer' = IF timer = "none" THEN "none" ELSE "unused"

\* case <-interrupt_chan: should_quit = true; break
MainInterrupt ==
  /\ Running /\ mpc = "select" /\ interrupt_chan = 1
  /\ LeaveLoop
  /\ UNCHANGED <<stop_closed, mdns_closed, timeout_seconds, presented, pumped,
                 shutdown_log, ppc, workerVars, exited, loopvar, labelVars, decVars>>

\* the deadline ends main at once, without the shutdown statements
MainTimeoutSkipsShutdown ==
  /\ Running /\ mpc = "select" /\ timer = "fired"
  /\ mpc' = "done"
  /\ interrupt_chan' = 0
  /\ timer' = "unused"
  /\ UNCHANGED <<stop_closed, mdns_closed, timeout_seconds, presented,
                 pumped, shutdown_log, ppc, workerVars, exited, loopvar,
                 labelVars, decVars>>

\* case <-timeout_chan: should_quit = true; break
MainTimeout ==
  /\ Running /\ mpc = "select" /\ timer = "fired"
  /\ LeaveLoop
  /\ UNCHANGED <<stop_closed, mdns_closed, timeout_seconds, presented,
                 pumped, shutdown_log, ppc, workerVars, exited, loopvar,
                 labelVars, decVars>>

\* main stays at close(stop_chan) and runs it again
CloseStopRepeats ==
  /\ Running /\ mpc = "close_stop"
  /\ stop_closed' = TRUE
  /\ shutdown_log' = Append(shutdown_log, "close_stop")
  /\ mpc' = IF stop_closed THEN "go_pump" ELSE mpc
  /\ UNCHANGED <<mdns_closed, interrupt_chan, timeout_seconds, timer, presented, pumped,
                 ppc, workerVars, exited, loopvar, labelVars, decVars>>

\* close(stop_chan)
CloseStop ==
  /\ Running /\ mpc = "close_stop"
  /\ stop_closed' = TRUE
  /\ shutdown_log' = Append(shutdown_log, "close_stop")
  /\ mpc' = "go_pump"
  /\ UNCHANGED <<mdns_closed, interrupt_chan, timeout_seconds, timer, presented, pumped,
                 ppc, workerVars, exited, loopvar, labelVars, decVars>>

\* main goes on to the wait without starting the pump
GoPumpSkipped ==
  /\ Running /\ mpc = "go_pump"
  /\ mpc' = "wait_call"
  /\ UNCHANGED <<stop_closed, mdns_closed, interrupt_chan, timeout_seconds, timer,
                 presented, pumped, shutdown_log, ppc, workerVars, exited, loopvar,
                 labelVars, decVars>>

\* the pump is launched while main is still in its dispatch loop
GoPumpInsideLoop ==
  /\ Running /\ mpc = "select" /\ ppc = "none"
  /\ ppc' = "pump"
  /\ UNCHANGED <<mpc, stop_closed, mdns_closed, interrupt_chan, timeout_seconds, timer,
                 presented, pumped, shutdown_log, workerVars, exited, loopvar,
                 labelVars, decVars>>

\* go func() { for { _, ok := <-mdns_chan; if ok == false { break } } }()
GoPump ==
  /\ Running /\ mpc = "go_pump"
  /\ ppc' = "pump"
  /\ shutdown_log' = Append(shutdown_log, "go_pump")
  /\ mpc' = "wait_call"
  /\ UNCHANGED <<stop_closed, mdns_closed, interrupt_chan, timeout_seconds, timer,
                 presented, pumped, workerVars, exited, loopvar, labelVars, decVars>>

\* main closes mdns_chan before it waits
WaitCallClosesFirst ==
  /\ Running /\ mpc = "wait_call"
  /\ mdns_closed' = TRUE
  /\ shutdown_log' = Append(shutdown_log, "close_mdns")
  /\ mpc' = "waiting"
  /\ UNCHANGED <<stop_closed, interrupt_chan, timeout_seconds, timer, presented, pumped,
                 ppc, workerVars, exited, loopvar, labelVars, decVars>>

\* wait_group.Wait() is called
WaitCall ==
  /\ Running /\ mpc = "wait_call"
  /\ shutdown_log' = Append(shutdown_log, "wait_call")
  /\ mpc' = "waiting"
  /\ UNCHANGED <<stop_closed, mdns_closed, interrupt_chan, timeout_seconds, timer,
                 presented, pumped, ppc, workerVars, exited, loopvar,
                 labelVars, decVars>>

\* the wait group's counter is zero: both goroutines ran wait_group.Done()
WaitGroupZeroNoWait == TRUE
WaitGroupZero == \A w \in W : wpc[w] = "done"

\* wait_group.Wait() returns
WaitReturn ==
  /\ Running /\ mpc = "waiting" /\ WaitGroupZero
  /\ shutdown_log' = Append(shutdown_log, "wait_return")
  /\ mpc' = "close_mdns"
  /\ UNCHANGED <<stop_closed, mdns_closed, interrupt_chan, timeout_seconds, timer,
                 presented, pumped, ppc, workerVars, exited, loopvar,
                 labelVars, decVars>>

\* close(mdns_chan)
CloseMdns ==
  /\ Running /\ mpc = "close_mdns"
  /\ mdns_closed' = TRUE
  /\ shutdown_log' = Append(shutdown_log, "close_mdns")
  /\ mpc' = "closed"
  /\ UNCHANGED <<stop_closed, interrupt_chan, timeout_seconds, timer, presented, pumped,
                 ppc, workerVars, exited, loopvar, labelVars, decVars>>

\* main returns and the process exits
MainReturn ==
  /\ Running /\ mpc = "closed"
  /\ mpc' = "done"
  /\ UNCHANGED <<stop_closed, mdns_closed, interrupt_chan, timeout_seconds, timer,
                 presented, pumped, shutdown_log, ppc, workerVars, exited, loopvar,
                 labelVars, decVars>>

LabelIdle == [b |-> <<>>, i |-> 0, max_i |-> -1, allow_ptr |-> FALSE]
NoResult == [st |-> "none"]

\* time.After is called for a duration of zero too
HasDeadlineNonNegative(t) == t >= 0

\* if timeout_seconds > 0 { timeout_chan = time.After(...) }
HasDeadline(t) == t > 0

\* main after both goroutines are launched and the channels are made
EngineInit ==
  /\ mpc = "select" /\ stop_closed = FALSE /\ mdns_closed = FALSE
  /\ interrupt_chan = 0
  /\ timeout_seconds \in {0, 1}
  /\ timer = IF HasDeadline(timeout_seconds) THEN "armed" ELSE "none"
  /\ presented = <<>> /\ pumped = 0 /\ shutdown_log = <<>>
  /\ ppc = "none"
  /\ wpc = [w \in W |-> "listen_udp"]
  /\ wk = [w \in W |-> 1]
  /\ deferred = [w \in W |-> <<>>]
  /\ left = [w \in W |-> <<>>]
  /\ sock = [w \in W |-> "none"]
  /\ nrecv = [w \in W |-> 0]
  /\ last_dst = [w \in W |-> "none"]
  /\ pending = [w \in W |-> NoEvent]
  /\ exited = "no"
  /\ loopvar = "unobserved"

Init ==
  /\ EngineInit
  /\ lin = LabelIdle /\ lout = NoResult
  /\ raw_msg = <<>> /\ dec = DecodeStart /\ recv_buf = NoBuffers

WorkerStep(w) ==
  \/ ListenUDP(w) \/ JoinGroup(w) \/ AfterJoin(w) \/ Poll(w)
  \/ ReadTimeout(w) \/ ReadError(w) \/ ReadDatagram(w)

MainStep ==
  \/ MainInterrupt \/ MainTimeout \/ CloseStop \/ GoPump \/ WaitCall
  \/ WaitReturn \/ CloseMdns \/ MainReturn

Next ==
  \/ \E w \in W : WorkerStep(w)
  \/ \E w \in W : MainRecv(w)
  \/ \E w \in W : PumpRecv(w)
  \/ PumpClosed
  \/ MainStep
  \/ Interrupt
  \/ TimerFire

Spec == Init /\ [][Next]_vars

(***************************************************************************)
(* main from its first statement: the interface selection, the launch of   *)
(* the two goroutines, the signal handler and the deadline, then the       *)
(* engine above.  A worker is "unspawned" until its go statement runs and  *)
(* stands at "resolve" until its net.ResolveUDPAddr has returned.          *)
(***************************************************************************)
\* what -i can name: nothing or "all", interfaces the host has, a name the
\* host does not have
Selections == {"all", "named", "unknown"}

\* lines 399-436: net.InterfaceByName for each name given (log.Fatal on the
\* first the host does not know) or net.Interfaces(); iface.Addrs() for each
\* (log.Fatal on error); the multicast filter; return when nothing is left
SelectInterfaces ==
  /\ Running /\ mpc = "interfaces"
  /\ \E sel \in Selections, addrs_ok \in BOOLEAN, suitable \in BOOLEAN :
       IF sel = "unknown" \/ ~addrs_ok
       THEN exited' = "log_fatal" /\ mpc' = mpc
       ELSE exited' = exited /\ mpc' = IF suitable THEN "go4" ELSE "done"
  /\ UNCHANGED <<stop_closed, mdns_closed, interrupt_chan, timeout_seconds, timer,
                 presented, pumped, shutdown_log, ppc, workerVars, loopvar,
                 labelVars, decVars>>

\* the family whose goroutine main launches at each of the two go statements
Launching == [go4 |-> 4, go6 |-> 6]

\* wait_group.Add(1); go func() { ... }()
Go ==
  /\ Running /\ mpc \in DOMAIN Launching
  /\ wpc' = [wpc EXCEPT ![Launching[mpc]] = "resolve"]
  /\ mpc' = IF mpc = "go4" THEN "go6" ELSE "notify"
  /\ UNCHANGED <<stop_closed, mdns_closed, interrupt_chan, timeout_seconds, timer,
                 presented, pumped, shutdown_log, ppc, wk, deferred, left, sock,
                 nrecv, last_dst, pending, exited, loopvar, labelVars, decVars>>

\* the goroutine goes on to its message loop although the address did not
\* resolve
ResolveUDPAddrErrorIgnored(w) ==
  /\ Running /\ wpc[w] = "resolve"
  /\ wpc' = [wpc EXCEPT ![w] = "listen_udp"]
  /\ UNCHANGED <<mainVars, wk, deferred, left, sock, nrecv, last_dst, pending,
                 exited, loopvar, labelVars, decVars>>

\* in the goroutine: mDNSAddr, err := net.ResolveUDPAddr(...); log.Fatal on
\* error; then ip4_msg_loop / ip6_msg_loop
ResolveUDPAddr(w) ==
  /\ Running /\ wpc[w] = "resolve"
  /\ \E ok \in BOOLEAN :
       IF ok THEN wpc' = [wpc EXCEPT ![w] = "listen_udp"] /\ exited' = exited
       ELSE wpc' = wpc /\ exited' = "log_fatal"
  /\ UNCHANGED <<mainVars, wk, deferred, left, sock, nrecv, last_dst, pending,
                 loopvar, labelVars, decVars>>

\* signal.Notify(interrupt_chan, ...); timeout_chan is a channel nothing is
\* sent on unless timeout_seconds > 0, when it is time.After's.  A signal
\* that arrives before this statement ends the process by the runtime's
\* default and is left out.
Notify ==
  /\ Running /\ mpc = "notify"
  /\ mpc' = "select"
  /\ timer' = IF HasDeadline(timeout_seconds) THEN "armed" ELSE "none"
  /\ UNCHANGED <<stop_closed, mdns_closed, interrupt_chan, timeout_seconds,
                 presented, pumped, shutdown_log, ppc, workerVars, exited, loopvar,
                 labelVars, decVars>>

StartInit ==
  /\ mpc = "interfaces" /\ stop_closed = FALSE /\ mdns_closed = FALSE
  /\ interrupt_chan = 0
  /\ timeout_seconds \in {0, 1}
  /\ timer = "none"
  /\ presented = <<>> /\ pumped = 0 /\ shutdown_log = <<>>
  /\ ppc = "none"
  /\ wpc = [w \in W |-> "unspawned"]
  /\ wk = [w \in W |-> 1]
  /\ deferred = [w \in W |-> <<>>]
  /\ left = [w \in W |-> <<>>]
  /\ sock = [w \in W |-> "none"]
  /\ nrecv = [w \in W |-> 0]
  /\ last_dst = [w \in W |-> "none"]
  /\ pending = [w \in W |-> NoEvent]
  /\ exited = "no"
  /\ loopvar = "unobserved"
  /\ lin = LabelIdle /\ lout = NoResult
  /\ raw_msg = <<>> /\ dec = DecodeStart /\ recv_buf = NoBuffers

StartNext ==
  \/ SelectInterfaces
  \/ Go
  \/ \E w \in W : ResolveUDPAddr(w)
  \/ Notify
  \/ Next

StartSpec == StartInit /\ [][StartNext]_vars

(***************************************************************************)
(* LabelSpec: parse_labels on every buffer of at most MaxLabelBuf bytes    *)
(* over LabelBytes, from every start offset, with and without a bound,     *)
(* with and without pointer following.  The bytes 0, 1 and 2 are lengths   *)
(* and pointer targets, 97 is label text, 192 is 0xc0.                     *)
(***************************************************************************)
LabelBytes == {0, 1, 2, 97, 192}

LabelBuffers == UNION {[1..n -> LabelBytes] : n \in 1..MaxLabelBuf}

LabelInputs ==
  {[b |-> x, i |-> s, max_i |-> m, allow_ptr |-> a] :
     x \in LabelBuffers, s \in 0..(MaxLabelBuf - 1), m \in {-1} \cup 1..MaxLabelBuf,
     a \in BOOLEAN}

LabelInit ==
  /\ EngineInit /\ timeout_seconds = 0
  /\ lin \in {x \in LabelInputs : x.i < Len(x.b) /\ x.max_i <= Len(x.b)}
  /\ lout = NoResult
  /\ raw_msg = <<>> /\ dec = DecodeStart /\ recv_buf = NoBuffers

ResolveLabels ==
  /\ lout = NoResult
  /\ lout' = parse_labels(lin.i, lin.max_i, lin.b, lin.allow_ptr)
  /\ UNCHANGED <<engineVars, lin, decVars>>

LabelNext == ResolveLabels

LabelSpec == LabelInit /\ [][LabelNext]_vars

(***************************************************************************)
(* DecSpec: DNSMessage.FromBytes on a set of messages, every prefix of     *)
(* each, and each with one byte replaced.                                  *)
(***************************************************************************)
NameA == <<1, 97, 0>>
ToQuery == <<192, 12>>

\* a query; a response with an A answer under a compressed name; PTR, SRV
\* and TXT records; an AAAA record and one of an unassigned type; a name
\* that points to itself; two names that point to each other; a TXT record
\* whose string is 192 bytes long; names of labels and a pointer
Msg1 == Hdr(1, 0, 0, 0) \o Q(NameA, PTR)
Msg2 == Hdr(1, 1, 0, 0) \o Q(NameA, A) \o RR(ToQuery, A, <<10, 0, 0, 7>>)
Msg3 == Hdr(0, 1, 1, 1) \o RR(NameA, PTR, <<1, 98, 192, 12>>)
                        \o RR(ToQuery, SRV, <<0, 1, 0, 2, 0, 80, 1, 99, 0>>)
                        \o RR(ToQuery, TXT, <<1, 100>>)
Msg4 == Hdr(0, 1, 0, 1) \o RR(<<0>>, AAAA, <<32, 1, 13, 184, 0, 0, 0, 0, 0, 0, 0, 0, 0, 0, 0, 1>>)
                        \o RR(<<0>>, 99, <<7, 7>>)
Msg5 == Hdr(1, 0, 0, 0) \o Q(<<192, 12>>, PTR)
Msg6 == Hdr(2, 0, 0, 0) \o Q(<<192, 18>>, PTR) \o Q(<<192, 12>>, PTR)

\* a TXT record whose one string has the length 0xc0: its rdata begins with
\* the two bytes that are, in a name, a pointer to offset 12
LongTxt == <<192, 12>> \o [k \in 1..191 |-> 97]
Msg7 == Hdr(0, 1, 0, 0) \o RR(NameA, TXT, LongTxt)

\* two questions and an answer: "a", then "b" and "c.b" each followed by a
\* pointer to the first
Msg8 == Hdr(2, 1, 0, 0) \o Q(NameA, PTR) \o Q(<<1, 98>> \o ToQuery, PTR)
                        \o RR(<<1, 99, 1, 98>> \o ToQuery, A, <<10, 0, 0, 7>>)

\* the values a byte is replaced by
MutBytes == {0, 1, 2, 5, 12, 16, 28, 33, 192, 255}

Prefixes(b) == {SubSeq(b, 1, n) : n \in 0..Len(b)}
Mutations(b) == {[b EXCEPT ![k] = v] : k \in 1..Len(b), v \in MutBytes}

Variants(b) == Prefixes(b) \cup Mutations(b)

DecBuffers ==
  Variants(Msg1) \cup Variants(Msg2) \cup Variants(Msg3) \cup Variants(Msg4)
    \cup Variants(Msg5) \cup Variants(Msg6) \cup Variants(Msg7) \cup Variants(Msg8)

DecInit ==
  /\ EngineInit /\ timeout_seconds = 0
  /\ lin = LabelIdle /\ lout = NoResult
  /\ raw_msg \in DecBuffers
  /\ dec = DecodeStart /\ recv_buf = NoBuffers

DecodeHeader ==
  /\ dec.pc = "header"
  /\ dec' = DecodeStep(dec, raw_msg)
  /\ UNCHANGED <<engineVars, labelVars, raw_msg, recv_buf>>

DecodeQuestion ==
  /\ dec.pc = "Question"
  /\ dec' = DecodeStep(dec, raw_msg)
  /\ UNCHANGED <<engineVars, labelVars, raw_msg, recv_buf>>

DecodeAnswer ==
  /\ dec.pc = "Answer"
  /\ dec' = DecodeStep(dec, raw_msg)
  /\ UNCHANGED <<engineVars, labelVars, raw_msg, recv_buf>>

DecodeAuthority ==
  /\ dec.pc = "Authority"
  /\ dec' = DecodeStep(dec, raw_msg)
  /\ UNCHANGED <<engineVars, labelVars, raw_msg, recv_buf>>

DecodeAdditional ==
  /\ dec.pc = "Additional"
  /\ dec' = DecodeStep(dec, raw_msg)
  /\ UNCHANGED <<engineVars, labelVars, raw_msg, recv_buf>>

DecNext ==
  \/ DecodeHeader \/ DecodeQuestion \/ DecodeAnswer \/ DecodeAuthority \/ DecodeAdditional

DecSpec == DecInit /\ [][DecNext]_vars

(***************************************************************************)
(* BufSpec: the receive loop with its buffer.  msg_loop makes one buffer b *)
(* and every ReadFromWrapper(b) writes the datagram over its first n       *)
(* bytes; FromBytes(b[:n]) decodes it.  A slice is a reference: an event   *)
(* holds, beside the values decoded, where its raw_msg lives and the       *)
(* bounds of the slices taken from it, and what a reader of the event sees *)
(* is read through them.                                                   *)
(***************************************************************************)
\* datagrams that decode: A, PTR, SRV, TXT, AAAA records and one of an
\* unassigned type
BufPayloads == {Msg2, Msg3, Msg4, Msg8}

\* b := make([]byte, 1500), of which no datagram here reaches beyond the
\* first BufCap bytes
BufCap == CHOOSE n \in {Len(x) : x \in BufPayloads} : \A x \in BufPayloads : Len(x) <= n

\* the buffer after a datagram x was read into it
Overlay(old, x) == [k \in 1..Len(old) |-> IF k <= Len(x) THEN x[k] ELSE old[k]]

\* m.raw_msg is the caller's slice itself
RawMsgAliased(bytes) == [own |-> FALSE, data |-> <<>>]

\* m.raw_msg = make([]byte, len(bytes)); copy(m.raw_msg, bytes): an array of
\* its own
RawMsgCopy(bytes) == [own |-> TRUE, data |-> bytes]

\* the bounds [lo, hi) in raw_msg of rr.raw_payload = b[i:i+rdlen], for each
\* record of each section in turn, as DNSMessage.FromBytes goes through
\* them; an AAAA payload's IP is b[i:i+16] at the same lo
PayloadRef(t, rr) == [lo |-> t.i - Len(rr.raw_payload), hi |-> t.i]

\* acc after the step from s to t: a step that stays in a record section has
\* appended one record to it
PayloadRefsAfter(s, t, acc) ==
  IF s.pc \in {"Answer", "Authority", "Additional"} /\ t.pc = s.pc
  THEN [acc EXCEPT ![s.pc] = Append(@, PayloadRef(t, t.m[s.pc][Len(t.m[s.pc])]))]
  ELSE acc

RECURSIVE PayloadRefs(_, _, _)
PayloadRefsFrom(s, t, bytes, acc) ==
  PayloadRefs(t, bytes, PayloadRefsAfter(s, t, acc))

PayloadRefs(s, bytes, acc) ==
  IF s.pc \in DecodeTerminal THEN acc
  ELSE PayloadRefsFrom(s, DecodeStep(s, bytes), bytes, acc)

NoRefs == [Answer |-> <<>>, Authority |-> <<>>, Additional |-> <<>>]

\* dnsi.msg.FromBytes(b[:n]) for each datagram, b[:n] being the datagram
\* just read: the message, and the bounds of its slices
BufDecoded == [x \in BufPayloads |-> FromBytes(x)]
BufRefs == [x \in BufPayloads |-> PayloadRefs(DecodeStart, x, NoRefs)]

\* the array an event's raw_msg refers to, as it is now
Backing(e) ==
  IF e.raw_msg.own THEN e.raw_msg.data ELSE SubSeq(recv_buf[e.w], 1, e.n)

\* the message a reader of the event sees now: strings and integers were
\* copied out when decoding, raw_payload and an AAAA IP are slices
Observed(e) ==
  LET through(sec) ==
        [k \in 1..Len(e.msg[sec]) |->
           LET r == e.refs[sec][k] IN
           [e.msg[sec][k] EXCEPT
              !.raw_payload = Slice(Backing(e), r.lo, r.hi),
              !.Payload = IF @.kind = "AAAA"
                          THEN [@ EXCEPT !.IP = Slice(Backing(e), r.lo, r.lo + 16)]
                          ELSE @]]
  IN [e.msg EXCEPT !.Answer = through("Answer"), !.Authority = through("Authority"),
                   !.Additional = through("Additional")]

\* n, ... := p.ReadFromWrapper(b) returns a datagram for the group;
\* dnsi.msg.FromBytes(b[:n]); the loop is at its send
BufRead(w) ==
  /\ Running /\ wpc[w] = "read" /\ nrecv[4] + nrecv[6] < MaxRecv
  /\ \E x \in BufPayloads :
       /\ recv_buf' = [recv_buf EXCEPT ![w] = Overlay(@, x)]
       /\ pending' = [pending EXCEPT ![w] =
                        [w |-> w, seq |-> nrecv[w] + 1, n |-> Len(x),
                         raw_msg |-> RawMsgCopy(x), msg |-> BufDecoded[x].m,
                         refs |-> BufRefs[x]]]
  /\ nrecv' = [nrecv EXCEPT ![w] = @ + 1]
  /\ wpc' = [wpc EXCEPT ![w] = "send"]
  /\ UNCHANGED <<mainVars, wk, deferred, left, sock, last_dst, exited, loopvar,
                 labelVars, raw_msg, dec>>

\* dnsi_channel <- dnsi meets main's case dnsi := <-mdns_chan: main has the
\* event and the loop goes round to its next receive
BufDispatch(w) ==
  /\ Running /\ mpc = "select" /\ wpc[w] = "send"
  /\ presented' = Append(presented, pending[w])
  /\ pending' = [pending EXCEPT ![w] = NoEvent]
  /\ wpc' = [wpc EXCEPT ![w] = "read"]
  /\ UNCHANGED <<mpc, stop_closed, mdns_closed, interrupt_chan, timeout_seconds, timer,
                 pumped, shutdown_log, ppc, wk, deferred, left, sock, nrecv, last_dst,
                 exited, loopvar, labelVars, decVars>>

\* both loops have joined on the first interface and are at their receive
BufInit ==
  /\ mpc = "select" /\ stop_closed = FALSE /\ mdns_closed = FALSE
  /\ interrupt_chan = 0 /\ timeout_seconds = 0 /\ timer = "none"
  /\ presented = <<>> /\ pumped = 0 /\ shutdown_log = <<>>
  /\ ppc = "none"
  /\ wpc = [w \in W |-> "read"]
  /\ wk = [w \in W |-> NumIfaces + 1]
  /\ deferred = [w \in W |-> <<ifaces[1]>>]
  /\ left = [w \in W |-> <<>>]
  /\ sock = [w \in W |-> "open"]
  /\ nrecv = [w \in W |-> 0]
  /\ last_dst = [w \in W |-> "none"]
  /\ pending = [w \in W |-> NoEvent]
  /\ exited = "no"
  /\ loopvar = "unobserved"
  /\ lin = LabelIdle /\ lout = NoResult
  /\ raw_msg = <<>> /\ dec = DecodeStart
  /\ recv_buf = [w \in W |-> [k \in 1..BufCap |-> 0]]

BufNext == \E w \in W : BufRead(w) \/ BufDispatch(w)

BufSpec == BufInit /\ [][BufNext]_vars

(***************************************************************************)
(* Fairness.  A goroutine that can take a step is scheduled; a receive     *)
(* returns within the one-second read deadline; a send completes once a    *)
(* receiver is at the channel.  Nothing makes a signal arrive, and the     *)
(* timer fires only when one was set.                                      *)
(***************************************************************************)
Fairness ==
  /\ \A w \in W : WF_vars(WorkerStep(w))
  /\ \A w \in W : WF_vars(MainRecv(w))
  /\ \A w \in W : WF_vars(PumpRecv(w))
  /\ WF_vars(PumpClosed)
  /\ WF_vars(MainStep)
  /\ WF_vars(TimerFire)

LiveSpec == Spec /\ Fairness

AllWorkersDone == \A w \in W : wpc[w] = "done"

\* C1 (as stated): once the stop signal is broadcast, every worker
\* terminates, the wait returns and main reaches its end.
C1_AsStated == stop_closed ~> (AllWorkersDone /\ mpc = "done")

\* C1 (amended): once the stop signal is broadcast the process never hangs:
\* either every worker terminates, the wait returns and main reaches its
\* end, or the process has been ended by log.Fatal or a run-time fault.
C1_ShutdownLiveness == stop_closed ~> ((AllWorkersDone /\ mpc = "done") \/ exited # "no")

\* both workers' events were taken by the pump after the stop signal, and
\* main reached its end
C1_Witness == mpc = "done" /\ exited = "no" /\ pumped = 2 /\ AllWorkersDone

IsPrefix(s, t) == Len(s) <= Len(t) /\ \A k \in 1..Len(s) : s[k] = t[k]

SeqRange(s) == {s[k] : k \in 1..Len(s)}

\* C2: the output stream is closed only after both workers have returned,
\* and only where main closes it: whenever mdns_chan is closed, every worker
\* has returned (none is sending or about to send) and main is past its
\* close statement.
C2_ClosedOnlyAfterWorkers ==
  mdns_closed => (AllWorkersDone /\ mpc \in {"closed", "done"}
                  /\ \A w \in W : pending[w] = NoEvent)

\* the stream is closed after a worker's event was taken by the pump
C2_Witness == mdns_closed /\ exited = "no" /\ pumped > 0 /\ AllWorkersDone

ShutdownOrder == <<"close_stop", "go_pump", "wait_call", "wait_return", "close_mdns">>

\* C3: the shutdown steps happen in one order: the stop signal is broadcast,
\* then the pump is started, then main begins to wait, then the wait
\* returns, then the output stream is closed; the steps taken so far are
\* always an initial part of that order, and the channels and the pump are
\* in the state the steps taken give them.
C3_ShutdownOrder ==
  /\ IsPrefix(shutdown_log, ShutdownOrder)
  /\ stop_closed = (Len(shutdown_log) >= 1)
  /\ (ppc # "none") = (Len(shutdown_log) >= 2)
  /\ (mpc \in {"waiting", "close_mdns", "closed", "done"}) = (Len(shutdown_log) >= 3)
  /\ mdns_closed = (Len(shutdown_log) = 5)

\* all five steps were taken
C3_Witness == shutdown_log = ShutdownOrder /\ mpc = "done"

\* C4: parse_labels with pointer following returns for every buffer, also
\* one whose pointers form a cycle: the recursion is never unbounded.
C4_CycleSafety == lin.allow_ptr => lout.st # "stack_overflow"

\* C5: a datagram that passes the filter and cannot be decoded does not end
\* the process: no run-time panic and no stack overflow comes of decoding.
C5_MalformedNotFatal == exited \notin {"panic", "stack_overflow"}

\* C6: a read that would pass the end of the buffer makes decode return the
\* error value MalformedMessage: decoding never ends in an out-of-range
\* fault.
C6_MalformedMessageOnOverrun == dec.pc # "panic"

\* the datagram a step of worker w read, when the step read one
Received(w) == wpc[w] = "read" /\ last_dst'[w] # "none"

\* C7: a worker emits an event only for a datagram whose destination is a
\* multicast address equal to its group address; reading any other datagram
\* takes the worker back to the top of its loop with no event and no error;
\* what main presents came from such a datagram.
C7_MulticastFilter ==
  [][\A w \in W :
       /\ (wpc[w] # "send" /\ wpc'[w] = "send")
            => /\ Received(w)
               /\ IsMulticast(last_dst'[w]) /\ last_dst'[w] = mdns_addr(w)
               /\ pending'[w].dst = last_dst'[w]
       /\ (Received(w) /\ last_dst'[w] # mdns_addr(w))
            => /\ wpc'[w] = "select"
               /\ pending'[w] = NoEvent
               /\ exited' = "no"
       /\ (presented' # presented /\ wpc[w] = "send" /\ wpc'[w] # "send")
            => presented'[Len(presented')].dst = mdns_addr(w)]_vars

\* a worker dropped a datagram sent to another multicast group after one of
\* its events was presented
C7_Witness ==
  /\ last_dst[4] = "224.0.0.252" /\ wpc[4] = "select"
  /\ Len(presented) = 1 /\ presented[1].w = 4

\* C8: when every join failed for both families and there is neither a
\* deadline nor an interrupt, main is not left blocked in its dispatch loop.
C8_NoInterfacesTerminates ==
  (/\ AllWorkersDone /\ \A w \in W : n_joined(w) = 0
   /\ exited = "no" /\ timeout_seconds = 0 /\ interrupt_chan = 0)
    => (mpc # "select" \/ ENABLED MainStep)

\* C9: a worker that has returned, on the stop signal or with nothing
\* joined, has called LeaveGroup for exactly the interfaces it joined, once
\* each, and its socket is closed; and a worker that left through a fatal
\* exit after a receive (it still stands at the read with the datagram's
\* destination recorded) has its socket closed too.
C9_LeavesExactlyJoined ==
  \A w \in W :
    /\ (wpc[w] = "done" /\ exited = "no")
         => /\ SeqRange(left[w]) = SeqRange(deferred[w])
            /\ Len(left[w]) = Len(deferred[w])
            /\ sock[w] = "closed"
    /\ (exited \in {"log_fatal", "stack_overflow"} /\ wpc[w] = "read"
        /\ last_dst[w] # "none")
         => sock[w] = "closed"

\* C10: when decoding completes, each section holds as many records as the
\* header's count for it.
C10_SectionCounts ==
  dec.pc = "done"
    => /\ Len(dec.m.Question) = dec.m.Header.QuestionCount
       /\ Len(dec.m.Answer) = dec.m.Header.AnswerCount
       /\ Len(dec.m.Authority) = dec.m.Header.AuthorityCount
       /\ Len(dec.m.Additional) = dec.m.Header.AdditionalCount

\* a message with one record in each of three sections was decoded
C10_Witness ==
  /\ dec.pc = "done"
  /\ Len(dec.m.Answer) = 1 /\ Len(dec.m.Authority) = 1 /\ Len(dec.m.Additional) = 1

\* the offset after a name on the wire that starts at offset i: labels up to
\* the zero length byte or up to the first two-byte pointer (RFC 1035, 4.1.4)
RECURSIVE NameEnd(_, _)
NameEnd(b, i) ==
  IF At(b, i) >= ptr_bits THEN i + 2
  ELSE IF At(b, i) = 0 THEN i + 1
  ELSE NameEnd(b, i + 1 + At(b, i))

RRSections == {"Answer", "Authority", "Additional"}

\* C11: a step that decodes a resource record leaves the cursor at (offset of
\* the first rdata byte) + rdlength, both read off the wire: the rdata begins
\* ten bytes after the record's name (type, class, TTL, rdlength).
C11_CursorAdvance ==
  [][\A sec \in RRSections :
       (dec.pc = sec /\ Len(dec'.m[sec]) = Len(dec.m[sec]) + 1)
         => LET rdata == NameEnd(raw_msg, dec.i) + 10
                rdlength == U16(raw_msg, rdata - 2)
            IN dec'.i = rdata + rdlength]_vars

\* a message was decoded to its last byte whose PTR rdata holds a pointer and
\* whose TXT rdata is cut off by its bound
C11_Witness ==
  /\ dec.pc = "done" /\ dec.i = Len(raw_msg)
  /\ Len(dec.m.Answer) = 1 /\ dec.m.Answer[1].Payload.kind = "PTR"
  /\ Len(dec.m.Authority) = 1 /\ dec.m.Authority[1].Payload.kind = "SRV"
  /\ Len(dec.m.Additional) = 1 /\ dec.m.Additional[1].Payload.kind = "TXT"

\* the other address family's message loop
Other(w) == IF w = 4 THEN 6 ELSE 4

\* the loop of family w returned because it joined no group
EndedEarly(w) == wpc[w] = "done" /\ n_joined(w) = 0

\* C12: a message loop whose joins all failed returns from the join phase
\* without touching main or the other loop and without ending the process;
\* it never received or emitted anything; an event the other loop is sending
\* is still taken off the channel; and after the stop signal main still
\* reaches its end.  A run ended by log.Fatal or a decoding fault in the
\* other loop is not this claim's case.
C12_OneFamilyFails ==
  /\ [][\A w \in W :
          (AfterJoin(w) /\ n_joined(w) = 0)
            => /\ wpc'[w] = "done"
               /\ exited' = exited
               /\ UNCHANGED <<mainVars, wpc[Other(w)], pending, nrecv>>]_vars
  /\ [](\A w \in W :
          EndedEarly(w)
            => /\ nrecv[w] = 0 /\ pending[w] = NoEvent
               /\ \A k \in 1..Len(presented) : presented[k].w # w)
  /\ \A w \in W :
       (EndedEarly(w) /\ wpc[Other(w)] = "send")
         ~> (pending[Other(w)] = NoEvent \/ exited # "no")
  /\ \A w \in W :
       (EndedEarly(w) /\ stop_closed)
         ~> ((AllWorkersDone /\ mpc = "done") \/ exited # "no")

\* the IPv4 loop joined nothing, the IPv6 loop's event was presented, and
\* main has run the shutdown to its end
C12_Witness ==
  /\ EndedEarly(4) /\ n_joined(6) > 0
  /\ Len(presented) >= 1 /\ presented[1].w = 6
  /\ mpc = "done" /\ exited = "no"

\* the loop of family w is in its for loop: at the select, in the receive or
\* in the send
Listening(w) == wpc[w] \in {"select", "read", "send"}

\* C13 (as stated): the step after the join loop enters the listening loop
\* exactly when at least one join succeeded.
C13_AsStated ==
  [][\A w \in W : AfterJoin(w) => (wpc'[w] = "select" <=> n_joined(w) >= 1)]_vars

\* C13 (amended): an iteration of the join loop, failed or not, goes on to
\* the next interface and changes neither main nor the exit status; every
\* interface is attempted; a loop is listening only if it joined a group;
\* and a loop that joined a group enters the listening loop unless
\* SetControlMessageWrapper fails, which ends the process.
C13_JoinFailureNonFatal ==
  /\ [][\A w \in W :
          JoinGroup(w)
            => /\ exited' = exited /\ UNCHANGED mainVars
               /\ wpc'[w] = "join" /\ wk'[w] = wk[w] + 1
               /\ deferred'[w] \in {deferred[w], Append(deferred[w], ifaces[wk[w]])}]_vars
  /\ [][\A w \in W :
          AfterJoin(w)
            => /\ wpc'[w] = "select" => n_joined(w) >= 1
               /\ n_joined(w) >= 1 => (wpc'[w] = "select" \/ exited' = "log_fatal")
               /\ UNCHANGED mainVars]_vars
  /\ [](\A w \in W : Listening(w) => n_joined(w) >= 1)
  /\ [](\A w \in W :
          (Running /\ wpc[w] = "join" /\ wk[w] <= NumIfaces) => ENABLED JoinGroup(w))

\* the IPv4 loop failed to join on the first interface, joined on the last
\* and is in its listening loop
C13_Witness ==
  /\ Listening(4) /\ deferred[4] = <<ifaces[NumIfaces]>> /\ exited = "no"

\* C14: once stop_chan is closed, a loop that is not in a receive starts no
\* receive and receives nothing more; its next poll returns; a receive that
\* was in progress ends at the select, in the send of its one event, or with
\* the loop's return, having read at most one datagram; and a receive timeout
\* goes back to the select with no event and no exit.
C14_StopObservedAtPoll ==
  [][\A w \in W :
       /\ (stop_closed /\ wpc[w] # "read")
            => (wpc'[w] # "read" /\ nrecv'[w] = nrecv[w])
       /\ (stop_closed /\ Poll(w)) => wpc'[w] = "done"
       /\ (stop_closed /\ wpc[w] = "read" /\ wpc'[w] # "read")
            => /\ wpc'[w] \in {"select", "send", "done"}
               /\ nrecv'[w] <= nrecv[w] + 1
       /\ ReadTimeout(w)
            => /\ wpc'[w] = "select"
               /\ UNCHANGED <<pending, presented, pumped, exited, nrecv>>]_vars

\* after the stop signal the IPv4 loop's event went to the pump and the loop
\* has returned
C14_Witness ==
  /\ stop_closed /\ exited = "no"
  /\ wpc[4] = "done" /\ n_joined(4) >= 1 /\ nrecv[4] >= 1
  /\ pumped >= 1 /\ presented = <<>>

\* C15: a receive that returns an error other than a timeout ends the
\* process with log.Fatal on that step: no event is created or delivered, no
\* deferred LeaveGroup or Close runs, no shutdown statement is executed; and
\* once the process has ended neither loop, main nor the pump takes a step.
C15_ReceiveErrorFatal ==
  /\ [][\A w \in W :
          ReadError(w)
            => /\ exited' = "log_fatal"
               /\ UNCHANGED <<pending, presented, pumped, wpc, left, sock,
                              shutdown_log, stop_closed, mdns_closed, mpc, ppc>>]_vars
  /\ [][exited = "no"]_vars

\* the IPv6 loop joined nothing and returned; the IPv4 loop's receive failed
\* while main was dispatching, after one event had been presented
C15_Witness ==
  /\ exited = "log_fatal"
  /\ EndedEarly(6) /\ wpc[4] = "read" /\ last_dst[4] = "none"
  /\ mpc = "select" /\ Len(presented) = 1

\* C16: the events of one loop are presented in the order in which the loop
\* received their datagrams (seq is the datagram's number in the loop's
\* receives); the event a loop is sending is that of the last datagram it
\* received and is later than every event of that loop already presented,
\* so whoever reads the channel next, main or the pump, gets it in order.
C16_PerWorkerOrder ==
  \A w \in W :
    /\ \A j, k \in 1..Len(presented) :
         (j < k /\ presented[j].w = w /\ presented[k].w = w)
           => presented[j].seq < presented[k].seq
    /\ \A k \in 1..Len(presented) : presented[k].w = w => presented[k].seq <= nrecv[w]
    /\ pending[w] # NoEvent
         => /\ pending[w].w = w /\ pending[w].seq = nrecv[w]
            /\ \A k \in 1..Len(presented) :
                 presented[k].w = w => presented[k].seq < pending[w].seq

\* two datagrams received by the IPv4 loop were presented, first one first
C16_Witness ==
  /\ Len(presented) = 2
  /\ presented[1].w = 4 /\ presented[2].w = 4
  /\ presented[1].seq = 1 /\ presented[2].seq = 2

\* C17: the step by which main takes the interrupt and the step by which it
\* takes the deadline lead to the same place, the first shutdown statement,
\* and change nothing else of main, the loops or the pump; past that step
\* the state keeps no trace of which trigger it was, so the statements that
\* follow are the same.  What the two cases print is not part of the state.
C17_TriggersAlike ==
  /\ [][(MainInterrupt \/ MainTimeout)
          => /\ mpc' = "close_stop"
             /\ UNCHANGED <<stop_closed, mdns_closed, timeout_seconds, presented, pumped,
                            shutdown_log, ppc, workerVars, exited, loopvar>>]_vars
  /\ [](mpc # "select" => (interrupt_chan = 0 /\ timer \in {"none", "unused"}))
  /\ [](mpc = "done" => shutdown_log = ShutdownOrder)

\* in a run with a deadline main has presented an event and left its
\* dispatch loop
C17_Witness ==
  /\ mpc = "close_stop" /\ timeout_seconds > 0 /\ timer = "unused"
  /\ Len(presented) >= 1 /\ exited = "no"

\* C18: a timer exists only in a run whose duration is positive; in a run
\* with duration 0 the timer never fires, main never takes the deadline
\* case, and main leaves its dispatch loop only by taking an interrupt.
C18_NoDeadlineWithoutDuration ==
  /\ [](timer # "none" => timeout_seconds > 0)
  /\ [](timeout_seconds = 0 => timer = "none")
  /\ [][timeout_seconds = 0
          => /\ ~TimerFire /\ ~MainTimeout
             /\ (mpc = "select" /\ mpc' # "select")
                  => (interrupt_chan = 1 /\ MainInterrupt)]_vars

\* a run with duration 0 dispatched two events and then, on an interrupt,
\* ran its shutdown to the end
C18_Witness ==
  /\ timeout_seconds = 0 /\ Len(presented) >= 2
  /\ mpc = "done" /\ exited = "no"

(***************************************************************************)
(* C19: configuration errors at startup.                                   *)
(***************************************************************************)
Unspawned == \A w \in W : wpc[w] = "unspawned"

\* the steps on which a configuration error ends the process
UnknownInterface == SelectInterfaces /\ exited' = "log_fatal"
Unresolvable(w) == ResolveUDPAddr(w) /\ exited' = "log_fatal"

\* C19 (as stated): whichever configuration error ends the process, the
\* unknown interface name or the group address that does not resolve, it
\* ends it while no worker goroutine has been launched.
C19_AsStated ==
  [][(UnknownInterface \/ \E w \in W : Unresolvable(w)) => Unspawned]_vars

\* C19: both configuration errors end the process, and before the worker
\* concerned has opened its socket, joined a group or produced an event.  An
\* unknown interface name ends it while no goroutine has been launched, and
\* none is launched afterwards.  The group address is resolved inside the
\* goroutine: that error is possible wherever the goroutine stands at its
\* first statement, it ends the process after the goroutine was launched,
\* and the other family's worker may by then be launched and listening.
C19_ConfigErrorFatal ==
  /\ [][UnknownInterface => (Unspawned /\ UNCHANGED wpc)]_vars
  /\ []((exited = "no" /\ mpc = "interfaces")
          => ENABLED UnknownInterface)
  /\ [](mpc \in {"interfaces", "go4"} => (Unspawned /\ presented = <<>>))
  /\ [][exited # "no" => UNCHANGED wpc]_vars
  /\ [][\A w \in W : Unresolvable(w)
           => (wpc[w] = "resolve" /\ UNCHANGED <<mainVars, workerVars>>)]_vars
  /\ \A w \in W :
       /\ []((Running /\ wpc[w] = "resolve")
               => ENABLED Unresolvable(w))
       /\ [](wpc[w] \in {"unspawned", "resolve"}
               => /\ sock[w] = "none" /\ deferred[w] = <<>> /\ nrecv[w] = 0
                  /\ pending[w] = NoEvent
                  /\ \A n \in 1..Len(presented) : presented[n].w # w)

\* the IPv6 group address fails to resolve while the IPv4 worker, launched
\* first, has its socket open, is in its receive loop and has had an event
\* dispatched
C19_Witness ==
  /\ exited = "log_fatal" /\ wpc[6] = "resolve"
  /\ wpc[4] = "select" /\ sock[4] = "open" /\ mpc = "select"
  /\ Len(presented) >= 1

(***************************************************************************)
(* C20: the bound of parse_labels.                                         *)
(***************************************************************************)
\* C20: called with a positive max_i, parse_labels reads no byte of b at an
\* offset at or beyond max_i, and when it returns, every label it returns
\* was taken from below max_i: it holds no byte of what follows the rdata.
C20_BoundRespected ==
  (lout # NoResult /\ lin.max_i > 0)
    => \A o \in parse_labels_reads(lin.i, lin.max_i, lin.b, lin.allow_ptr) : o < lin.max_i

(***************************************************************************)
(* C21: the payload of a resource record.                                  *)
(***************************************************************************)
\* the case of the switch a type value selects; "nil" is rr.Payload left
\* unset, the record's data being kept in raw_payload alone
PayloadKind(type) ==
  CASE type = A -> "A" [] type = AAAA -> "AAAA" [] type = PTR -> "PTR"
    [] type = TXT -> "TXT" [] type = SRV -> "SRV" [] OTHER -> "nil"

\* the record at offset i lies in b: its name resolves, its fixed fields and
\* its rdlength bytes of rdata are there
RecordInBuffer(i, b) ==
  LET hr == DNSRRHeader_FromBytes(i, b) IN
  /\ hr.st = "ok"
  /\ CanU32(b, hr.i) /\ CanU16(b, hr.i + 4)
  /\ hr.i + 6 + U16(b, hr.i + 4) <= Len(b)

RECURSIVE IsPlainName(_, _)
IsPlainName(b, p) ==
  /\ p >= 0 /\ p < Len(b)
  /\ \/ At(b, p) = 0
     \/ /\ At(b, p) < ptr_bits /\ p + 1 + At(b, p) <= Len(b)
        /\ IsPlainName(b, p + 1 + At(b, p))

\* its labels
RECURSIVE PlainLabels(_, _)
PlainLabels(b, p) ==
  IF At(b, p) = 0 THEN <<>>
  ELSE <<Slice(b, p + 1, p + 1 + At(b, p))>> \o PlainLabels(b, p + 1 + At(b, p))

\* the offset the two bytes at i name when they are read as a pointer
PointerTarget(b, i) == U16(b, i) % idx_mod

\* C22: a TXT rdata that begins with a byte whose two high bits are set is
\* read as a string of that length: when the buffer holds that many bytes
\* after it the record decodes and its text begins with these bytes, and
\* when it does not the decoder panics on the slice; no offset the byte and
\* its successor would name as a pointer plays a part.  A PTR rdata that
\* begins with such a byte is followed: its text is the name at the offset
\* the two bytes point to.
C22_TxtLiteralLength ==
  [][\A sec \in RRSections :
       /\ (dec.pc = sec /\ Len(dec'.m[sec]) = Len(dec.m[sec]) + 1)
            => LET rr == dec'.m[sec][Len(dec'.m[sec])]
                   rdata == NameEnd(raw_msg, dec.i) + 10
                   rdlength == U16(raw_msg, rdata - 2)
                   l == At(raw_msg, rdata)
               IN (rdlength >= 1 /\ l >= ptr_bits)
                    => /\ rr.Header.Type = TXT
                            => /\ rdata + 1 + l <= Len(raw_msg)
                               /\ Len(rr.Payload.Text) >= l
                               /\ SubSeq(rr.Payload.Text, 1, l)
                                    = Slice(raw_msg, rdata + 1, rdata + 1 + l)
                       /\ (/\ rr.Header.Type = PTR
                           /\ IsPlainName(raw_msg, PointerTarget(raw_msg, rdata))
                           /\ NameEnd(raw_msg, PointerTarget(raw_msg, rdata)) <= rdata + rdlength)
                            => rr.Payload.Text
                                 = Join(PlainLabels(raw_msg, PointerTarget(raw_msg, rdata)), Dot)
       /\ (/\ dec.pc = sec /\ dec.j < SectionCount(dec.m.Header, sec)
           /\ RecordInBuffer(dec.i, raw_msg)
           /\ LET rdata == NameEnd(raw_msg, dec.i) + 10 IN
              /\ U16(raw_msg, rdata - 10) = TXT
              /\ U16(raw_msg, rdata - 2) >= 1
              /\ At(raw_msg, rdata) >= ptr_bits
              /\ rdata + 1 + At(raw_msg, rdata) > Len(raw_msg))
            => dec'.pc = "panic"]_vars

\* the TXT record whose rdata begins 0xc0 0x0c was decoded: its text is the
\* 192 bytes after the length byte, not the name at offset 12
C22_Witness ==
  /\ dec.pc = "done" /\ raw_msg = Msg7
  /\ Len(dec.m.Answer) = 1 /\ dec.m.Answer[1].Payload.kind = "TXT"
  /\ dec.m.Answer[1].Payload.Text = Tail(LongTxt)
  /\ dec.m.Answer[1].Payload.Text # <<97>>

\* the name at offset i of b is zero or more labels, each in the buffer,
\* followed by a two-byte pointer
RECURSIVE EndsInPointer(_, _)
EndsInPointer(b, i) ==
  /\ i >= 0 /\ i < Len(b)
  /\ IF At(b, i) >= ptr_bits THEN CanU16(b, i)
     ELSE /\ At(b, i) # 0 /\ i + 1 + At(b, i) <= Len(b)
          /\ EndsInPointer(b, i + 1 + At(b, i))

\* its labels before the pointer
RECURSIVE LeadingLabels(_, _)
LeadingLabels(b, i) ==
  IF At(b, i) >= ptr_bits THEN <<>>
  ELSE <<Slice(b, i + 1, i + 1 + At(b, i))>> \o LeadingLabels(b, i + 1 + At(b, i))

\* the uncompressed encoding of a sequence of labels
RECURSIVE Uncompressed(_)
Uncompressed(l) ==
  IF Len(l) = 0 THEN <<0>> ELSE <<Len(l[1])>> \o l[1] \o Uncompressed(Tail(l))

\* the record headers a step decodes: the questions and the headers of the
\* resource records
HeaderOf(sec, x) == IF sec = "Question" THEN x ELSE x.Header

\* C23: when the name of a question or of a resource record is zero or more
\* labels followed by a pointer to an uncompressed name N, the decoded name
\* is the one decoded from the uncompressed encoding of these labels followed
\* by the labels of N, both being the labels joined by dots; and the cursor
\* after the name is the offset after the pointer's two bytes: type and
\* class are read there, and a question's cursor is four bytes further.
C23_PointerEquivalence ==
  [][\A sec \in {"Question"} \cup RRSections :
       (/\ dec.pc = sec /\ Len(dec'.m[sec]) = Len(dec.m[sec]) + 1
        /\ EndsInPointer(raw_msg, dec.i)
        /\ IsPlainName(raw_msg, PointerTarget(raw_msg, NameEnd(raw_msg, dec.i) - 2)))
         => LET h == HeaderOf(sec, dec'.m[sec][Len(dec'.m[sec])])
                after == NameEnd(raw_msg, dec.i)
                all == LeadingLabels(raw_msg, dec.i)
                         \o PlainLabels(raw_msg, PointerTarget(raw_msg, after - 2))
                plain == DNSRRHeader_FromBytes(0, Uncompressed(all) \o <<0, 1, 0, 1>>)
            IN /\ plain.st = "ok"
               /\ h.Name = plain.h.Name
               /\ h.Name = Join(all, Dot)
               /\ h.Type = U16(raw_msg, after) /\ h.Class = U16(raw_msg, after + 2)
               /\ sec = "Question" => dec'.i = after + 4]_vars

\* the three names of the message were decoded: "a", "b.a", "c.b.a"
C23_Witness ==
  /\ dec.pc = "done" /\ raw_msg = Msg8
  /\ Len(dec.m.Question) = 2 /\ dec.m.Question[1].Name = <<97>>
  /\ dec.m.Question[2].Name = <<98, 46, 97>>
  /\ Len(dec.m.Answer) = 1 /\ dec.m.Answer[1].Header.Name = <<99, 46, 98, 46, 97>>

(***************************************************************************)
(* C24: the readers of mdns_chan.                                          *)
(***************************************************************************)
\* the tasks standing at a receive from mdns_chan
Readers ==
  (IF mpc = "select" THEN {"main"} ELSE {}) \cup (IF ppc = "pump" THEN {"pump"} ELSE {})

\* C24: at most one task is at a receive from mdns_chan.  main is the only
\* one while it is in its dispatch loop; the pump exists only once main has
\* left the loop on a trigger, and main never comes back to it: a send is
\* never offered to both, and every receive is main's before the pump is
\* launched and the pump's after.
C24_SingleReader ==
  /\ [](Cardinality(Readers) <= 1)
  /\ [](mpc = "select" => ppc = "none")
  /\ [](ppc # "none" => (mpc \notin {"select", "close_stop", "go_pump"} /\ stop_closed))
  /\ [](\A w \in W : ~(ENABLED MainRecv(w) /\ \E v \in W : ENABLED PumpRecv(v)))
  /\ [][/\ (mpc = "select" /\ mpc' # "select") => (MainInterrupt \/ MainTimeout)
        /\ mpc # "select" => mpc' # "select"
        /\ ppc # ppc' => (GoPump \/ PumpClosed)
        /\ \A w \in W : (MainRecv(w) => ppc = "none") /\ (PumpRecv(w) => mpc # "select")]_vars

\* the pump took an event after main had dispatched one
C24_Witness ==
  /\ ppc = "pump" /\ pumped >= 1 /\ Len(presented) >= 1
  /\ mpc = "waiting" /\ exited = "no"

(***************************************************************************)
(* C25: the phases of a message loop.                                      *)
(***************************************************************************)
\* 0 before the socket is open, 1 in the join loop, 2 in the receive loop,
\* 3 once msg_loop has returned
Phase(w) ==
  CASE wpc[w] \in {"unspawned", "resolve", "listen_udp"} -> 0
    [] wpc[w] = "join" -> 1
    [] wpc[w] \in {"select", "read", "send"} -> 2
    [] wpc[w] = "done" -> 3

\* the steps at which the send dnsi_channel <- dnsi of family w completes
Emits(w) == MainRecv(w) \/ PumpRecv(w)

\* C25: a message loop never goes back to an earlier phase.  It has an event
\* to send, and sends one, only in its receive loop, which it enters only
\* with a group joined; it calls JoinGroup only in its join loop; and once
\* it has seen the stop channel closed it has returned: it receives nothing
\* and sends nothing from then on.
C25_ForwardOnly ==
  /\ [][\A w \in W :
          /\ Phase(w)' >= Phase(w)
          /\ Emits(w) => (Phase(w) = 2 /\ n_joined(w) >= 1)
          /\ pending'[w] # pending[w] => Phase(w) = 2
          /\ JoinGroup(w) => Phase(w) = 1
          /\ (deferred'[w] # deferred[w] \/ wk'[w] # wk[w]) => (Phase(w) = 1 /\ Phase(w)' = 1)
          /\ (Poll(w) /\ stop_closed) => Phase(w)' = 3
          /\ Phase(w) = 3
               => (~Emits(w) /\ ~ReadDatagram(w) /\ ~ReadTimeout(w) /\ ~Poll(w)
                   /\ nrecv'[w] = nrecv[w] /\ pending'[w] = pending[w])]_vars
  /\ [](\A w \in W : (Phase(w) = 2 \/ pending[w] # NoEvent \/ nrecv[w] > 0)
                        => n_joined(w) >= 1)
  /\ [](\A w \in W : (Phase(w) # 2 => pending[w] = NoEvent)
                     /\ (Phase(w) < 2 => \A n \in 1..Len(presented) : presented[n].w # w))

\* the IPv4 loop joined a group, had an event dispatched, saw the stop
\* channel closed and returned
C25_Witness ==
  /\ wpc[4] = "done" /\ n_joined(4) >= 1 /\ stop_closed /\ exited = "no"
  /\ \E n \in 1..Len(presented) : presented[n].w = 4

(***************************************************************************)
(* C26: what is printed after a trigger.                                   *)
(***************************************************************************)
\* main has taken case <-interrupt_chan or case <-timeout_chan
TriggerTaken == mpc \notin {"interfaces", "go4", "go6", "notify", "select"}

\* C26: once main has taken a trigger nothing more is printed: presented
\* does not change, and every send that completes from then on is taken by
\* the pump, which only counts it.  Before that, each event main receives is
\* appended to presented once, at the step that receives it, and nothing
\* else ever changes presented: no event is in it twice.
C26_NothingPresentedAfterTrigger ==
  /\ [][/\ TriggerTaken => presented' = presented
        /\ \A w \in W : (Emits(w) /\ TriggerTaken)
                          => (PumpRecv(w) /\ pumped' = pumped + 1 /\ pending'[w] = NoEvent)
        /\ \A w \in W : MainRecv(w)
                          => /\ ~TriggerTaken
                             /\ presented' = Append(presented, pending[w])
                             /\ pending'[w] = NoEvent /\ pumped' = pumped
        /\ presented' # presented => \E w \in W : MainRecv(w)
        /\ TriggerTaken => TriggerTaken']_vars
  /\ [](\A m, n \in 1..Len(presented) :
          (presented[m].w = presented[n].w /\ presented[m].seq = presented[n].seq) => m = n)
  /\ [](pumped > 0 => TriggerTaken)

\* main dispatched an event, took a trigger and ran to its end while the
\* pump took a later event
C26_Witness ==
  /\ mpc = "done" /\ exited = "no"
  /\ Len(presented) = 1 /\ pumped = 1

(***************************************************************************)
(* C27: close(stop_chan).                                                  *)
(***************************************************************************)
\* how many times close(stop_chan) has run
RECURSIVE Count(_, _)
Count(s, x) == IF s = <<>> THEN 0 ELSE (IF Head(s) = x THEN 1 ELSE 0) + Count(Tail(s), x)

\* C27: close(stop_chan) runs at most once, and exactly once in a run that
\* reaches main's shutdown statements and its end.  stop_chan is closed only
\* by that statement, stays closed, and the statement cannot run again when
\* it is closed.  When a signal is in interrupt_chan and the timer has fired,
\* main takes one of the two, leaves the loop, and what the other channel
\* holds is never taken.
C27_StopClosedOnce ==
  /\ [](Count(shutdown_log, "close_stop") = IF stop_closed THEN 1 ELSE 0)
  /\ [](stop_closed => ~ENABLED CloseStop)
  /\ []((mpc \in {"go_pump", "wait_call", "waiting", "close_mdns", "closed"}
          \/ (mpc = "done" /\ exited = "no")) => stop_closed)
  /\ [][/\ stop_closed' # stop_closed => (CloseStop /\ ~stop_closed /\ mpc = "close_stop")
        /\ (mpc = "select" /\ interrupt_chan = 1 /\ timer = "fired" /\ mpc' # mpc)
             => /\ MainInterrupt \/ MainTimeout
                /\ mpc' = "close_stop" /\ ~stop_closed'
                /\ interrupt_chan' = 0 /\ timer' = "unused"
        /\ TriggerTaken => (~MainInterrupt /\ ~MainTimeout /\ ~Interrupt /\ ~TimerFire)]_vars

\* a run with a deadline reached main's end through all its shutdown
\* statements: stop_chan was closed once
C27_Witness ==
  /\ mpc = "done" /\ exited = "no" /\ stop_closed /\ timeout_seconds > 0
  /\ Count(shutdown_log, "close_stop") = 1 /\ Len(shutdown_log) > 1

Events ==
  ({presented[n] : n \in 1..Len(presented)} \cup {pending[w] : w \in W}) \ {NoEvent}

\* C29: whatever a message loop has read into its buffer since, the message
\* of every event dispatched or waiting to be sent reads as it was decoded,
\* raw_payload and AAAA address included.
C29_EventsKeepTheirBytes ==
  \A e \in Events : Observed(e) = e.msg

\* the IPv4 loop read the AAAA datagram and then a shorter one over it: the
\* buffer no longer holds the address where the first event's slice was
\* taken, and the event still reads 2001:db8::1
C29_Witness ==
  /\ Len(presented) = 2 /\ presented[1].w = 4 /\ presented[2].w = 4
  /\ presented[1].raw_msg.data = Msg4 /\ presented[2].raw_msg.data = Msg2
  /\ LET r == presented[1].refs.Answer[1] IN
     /\ Slice(recv_buf[4], r.lo, r.lo + 16) # Slice(Msg4, r.lo, r.lo + 16)
     /\ Observed(presented[1]).Answer[1].Payload.IP = Slice(Msg4, r.lo, r.lo + 16)
     /\ Observed(presented[1]).Answer[1].raw_payload = Slice(Msg4, r.lo, r.hi)

=============================================================================
